---- MODULE Spec2Model ----
(***************************************************************************)
(* Model of the offline write-synchronisation engine src/src/sync.js        *)
(* (class Sync: count, createSaveOperation, createDeleteOperation, push,   *)
(* clear).  The sync table ("journal"), the per-collection local table     *)
(* and the remote backend are the state; every await of push is a step.    *)
(* The WebSQL storage adapter of src/unnamed/part_000 (execute, find,       *)
(* findById, save, removeById, clear) is modelled next to it, with the      *)
(* database and the outstanding call as its state.                          *)
(***************************************************************************)
EXTENDS Integers, Sequences, FiniteSets, TLC

(* ------------------------------ bounds -------------------------------- *)

\* Largest value the persisted sync key counter may reach in the model; no
\* enqueue is called once it is reached.
MaxKey == 3

\* sync.js:283 sets batchSize = 100; the model scales the batch down so that
\* a push of a few records runs through more than one batch.
batchSize == 2

(* --------------------------- value universe --------------------------- *)

\* HttpMethod values that occur in state.method (enums, used by sync.js).
POST == "POST"
PUT == "PUT"
DELETE == "DELETE"
GET == "GET"

\* A missing _id (undefined / empty: falsy in the source).
NoId == ""

\* Device-generated ids (entity._kmd.local set) and server-known ids.
LocalIds == {"local_1"}
ServerKnownIds == {"a"}
EntityIds == LocalIds \cup ServerKnownIds

\* Ids the remote assigns in the response to a POST.
SrvIds == {"srv7"}

\* What the template `${originalId}` of a request path gives for an id.
PathId(id) == IF id = NoId THEN "undefined" ELSE id

RowIds == EntityIds \cup SrvIds \cup {PathId(NoId)}

\* Value of the remote's copy of a document, and of the device's copy.
RemoteV == "v9"
LocalV == "v1"

\* The pushes that may be outstanding: Spec runs one at a time.
Pushes == {1, 2}

\* Queries (opaque in the source): the set of entityIds a query matches.
AllQuery == EntityIds
Queries == {AllQuery, {"a"}}

\* Error classes of a remote response.
NotFoundError == "NotFoundError"
InsufficientCredentialsError == "InsufficientCredentialsError"
NetworkError == "NetworkError"
SyncError == "SyncError"
NoError == "none"
RemoteErrors == {NotFoundError, InsufficientCredentialsError, NetworkError}

\* An entity as the application hands it to enqueue.
Entity(id) == [id |-> id, local |-> id \in LocalIds, v |-> LocalV]
NoIdEntity == [id |-> NoId, local |-> FALSE, v |-> LocalV]
NoDoc == [id |-> NoId, local |-> FALSE, v |-> ""]

VARIABLES
    journal,            \* the sync table: a set of SyncRecords
    syncKey,            \* the persisted counter (getSyncKey / setSyncKey)
    rows,               \* the collection's local table: id -> doc or NoDoc
    returned,           \* what the step just taken handed to a caller
    pc,                 \* pc[p]: where push p stands
    syncEntities,       \* syncEntities[p]: the coalesced list of push p
    i,                  \* i[p]: start of the next batch
    batch,              \* batch[p]: the tasks of the batch in flight
    failedSyncEntities, \* failedSyncEntities[p]
    syncResults,        \* syncResults[p]
    drained,            \* drained[p]: what the drain of push p removed
    requests,           \* requests[p][key]: requests issued for that record
    outcome,            \* outcome[p][key]: the remote's answer to its PUT/POST/DELETE
    query               \* query[p]: the query push p was called with

vars == <<journal, syncKey, rows, returned, pc, syncEntities, i, batch,
          failedSyncEntities, syncResults, drained, requests, outcome, query>>

pushVars == <<pc, syncEntities, i, batch, failedSyncEntities, syncResults,
              drained, requests, outcome, query>>

(* -------------------- storage adapter: universe ----------------------- *)

\* part_000:183.
MASTER_TABLE_NAME == "sqlite_master"

\* The tables, keys and field values of the documents handed to the adapter.
Tables == {"books"}
KeyOrder == <<"k1", "k2">>
Keys == {KeyOrder[k] : k \in DOMAIN KeyOrder}
Vals == {"v1", "NaN"}
Docs == [id : Keys, v : Vals]

\* JSON.stringify(doc) (line 274) and JSON.parse(value) (line 219): the text
\* of a document; a NaN is written as null.
stringify(doc) == [json |-> [doc EXCEPT !.v = IF @ = "NaN" THEN "null" ELSE @]]
parse(value) == value.json

\* No row under a key; a table that does not exist; the empty database.
NoRow == [json |-> [id |-> "", v |-> ""]]
NoTable == [exists |-> FALSE, rows |-> [k \in Keys |-> NoRow]]
NoDatabase == [t \in Tables |-> NoTable]

\* No call of the adapter is outstanding.
NoCall ==
    [op |-> "none", table |-> "", tableName |-> "", sqlQueries |-> <<>>,
     write |-> FALSE, docs |-> <<>>, st |-> "idle", next |-> 0,
     tx |-> NoDatabase, responses |-> <<>>, promise |-> "none", error |-> "none"]

VARIABLES
    db,                 \* the WebSQL database: table -> exists, rows
    call                \* the outstanding call of execute and its transaction

adapterVars == <<db, call>>

(* --------------------------- pure functions --------------------------- *)

Range(s) == {s[k] : k \in DOMAIN s}

\* Faulty variant of Matching: the query is dropped from the request.
MatchingAll(q) == journal

\* The records of the sync table a query matches.
Matching(q) == {r \in journal : r.entityId \in q}

\* orderBy(syncEntities, 'key', ['desc'])
RECURSIVE orderBy(_)
orderBy(S) ==
    IF S = {} THEN <<>>
    ELSE LET top == CHOOSE r \in S : \A o \in S : o.key <= r.key
         IN  <<top>> \o orderBy(S \ {top})

\* sortedUniqBy(syncEntities, 'entityId'): lodash's baseSortedUniq keeps an
\* element when it is the first or when its entityId differs from `seen`,
\* the entityId of the element kept last.
RECURSIVE baseSortedUniq(_, _, _, _)
baseSortedUniq(array, index, seen, result) ==
    IF index > Len(array) THEN result
    ELSE IF index = 1 \/ array[index].entityId # seen
         THEN baseSortedUniq(array, index + 1, array[index].entityId,
                             Append(result, array[index]))
         ELSE baseSortedUniq(array, index + 1, seen, result)

sortedUniqBy(array) == baseSortedUniq(array, 1, NoId, <<>>)

\* Lines 74-75 and 303-304: the filter "one operation per unique entity".
Coalesce(S) == sortedUniqBy(orderBy(S))

\* Metadata(entity).isLocal(), decided when the Metadata is constructed.
isLocal(entity) == entity.local = TRUE

\* syncEntities.slice(i, i + batchSize), i counted from 0.
slice(s, from, to) ==
    [k \in 1..((IF to < Len(s) THEN to ELSE Len(s)) - from) |-> s[from + k]]

NoRequests == [k \in 1..MaxKey |-> <<>>]
NoOutcomes == [k \in 1..MaxKey |-> "none"]

Result(id, entity, error) == [id |-> id, entity |-> entity, error |-> error]

\* A step that completes no call hands nothing to a caller.
NoReturn == [op |-> "none"]

(* ------------------------------- Init --------------------------------- *)

\* The collection's local table as the data store leaves it before it
\* enqueues: a row for each entity the device holds.
InitRows == [id \in RowIds |-> IF id \in EntityIds THEN Entity(id) ELSE NoDoc]

Init ==
    /\ journal = {}
    /\ syncKey = 0
    /\ rows = InitRows
    /\ returned = NoReturn
    /\ pc = [p \in Pushes |-> "idle"]
    /\ syncEntities = [p \in Pushes |-> <<>>]
    /\ i = [p \in Pushes |-> 0]
    /\ batch = [p \in Pushes |-> <<>>]
    /\ failedSyncEntities = [p \in Pushes |-> <<>>]
    /\ syncResults = [p \in Pushes |-> <<>>]
    /\ drained = [p \in Pushes |-> {}]
    /\ requests = [p \in Pushes |-> NoRequests]
    /\ outcome = [p \in Pushes |-> NoOutcomes]
    /\ query = [p \in Pushes |-> {}]
    /\ db = NoDatabase
    /\ call = NoCall

(* ------------------------------ count --------------------------------- *)

\* count(query): read the matching records, coalesce, return the length.
count(q) ==
    /\ returned' = [op |-> "count", query |-> q,
                    value |-> Len(Coalesce(Matching(q)))]
    /\ UNCHANGED <<journal, syncKey, rows>>
    /\ UNCHANGED pushVars

(* ----------------------------- enqueue -------------------------------- *)

\* The array handed to an enqueue: entities with an _id and entities without.
EntityInputs == {Entity(id) : id \in EntityIds} \cup {NoIdEntity}
EntityArrays ==
    {<<e>> : e \in EntityInputs} \cup {<<e, f>> : e \in EntityInputs, f \in EntityInputs}

\* The calls of enqueue: a missing collection name is refused before the
\* entities are looked at, so one array stands for all of them there.
EnqueueInputs ==
    {<<"books", es>> : es \in EntityArrays} \cup {<<"", <<NoIdEntity>>>>}

\* Faulty variant of syncEntitiesOf: the check of the _id is dropped, every
\* entity of the array takes a key and is written.
syncEntitiesOfNoIdCheck(method, collection, entities, from, key) ==
    {[key |-> key + 1 + (k - from), entityId |-> entities[k].id,
      collection |-> collection, method |-> method, entity |-> entities[k]] :
        k \in from..Len(entities)}

\* The map callback of lines 117-166 / 208-257 run over entities[from..]:
\* an entity without _id rejects its own promise and leaves the counter
\* alone; every other entity takes the next key and is written.
RECURSIVE syncEntitiesOf(_, _, _, _, _)
syncEntitiesOf(method, collection, entities, from, key) ==
    IF from > Len(entities) THEN {}
    ELSE IF entities[from].id = NoId
         THEN syncEntitiesOf(method, collection, entities, from + 1, key)
         ELSE {[key |-> key + 1, entityId |-> entities[from].id,
                collection |-> collection, method |-> method,
                entity |-> entities[from]]}
              \cup syncEntitiesOf(method, collection, entities, from + 1, key + 1)

\* Faulty variant of createOperation: the incremented key is not stored
\* (setSyncKey dropped), so the next enqueue reads the old counter.
createOperationNoSetKey(method, collection, entities) ==
    /\ syncKey < MaxKey
    /\ collection # ""
    /\ LET written == syncEntitiesOf(method, collection, entities, 1, syncKey)
       IN  /\ written # {}
           /\ journal' = journal \cup written
           /\ syncKey' = syncKey
           /\ returned' = [op |-> "enqueue", error |-> NoError]

createOperation(method, collection, entities) ==
    /\ syncKey < MaxKey
    /\ IF collection = ""
       THEN /\ returned' = [op |-> "enqueue", error |-> SyncError]
            /\ UNCHANGED <<journal, syncKey>>
       ELSE LET written == syncEntitiesOf(method, collection, entities, 1, syncKey)
                thrown == \E k \in DOMAIN entities : entities[k].id = NoId
            IN  /\ syncKey + Cardinality(written) <= MaxKey
                /\ journal' = journal \cup written
                /\ syncKey' = syncKey + Cardinality(written)
                /\ returned' = [op |-> "enqueue",
                                error |-> IF thrown THEN SyncError ELSE NoError]

createSaveOperation(collection, entities) ==
    /\ createOperation(POST, collection, entities)
    /\ UNCHANGED rows
    /\ UNCHANGED pushVars

createDeleteOperation(collection, entities) ==
    /\ createOperation(DELETE, collection, entities)
    /\ UNCHANGED rows
    /\ UNCHANGED pushVars

\* A record whose state.method is none of POST, PUT, DELETE, written to the
\* sync table by another writer with the next key (push lines 504-508 expect it).
putUnrecognized(id) ==
    /\ syncKey + 1 <= MaxKey
    /\ \A p \in Pushes : pc[p] = "idle"
    /\ journal' = journal \cup {[key |-> syncKey + 1, entityId |-> id,
                                collection |-> "books", method |-> GET,
                                entity |-> Entity(id)]}
    /\ syncKey' = syncKey + 1
    /\ returned' = NoReturn
    /\ UNCHANGED rows
    /\ UNCHANGED pushVars

(* ------------------------------- push --------------------------------- *)

Req(to, method, id) == [to |-> to, method |-> method, id |-> id]

\* Append a request to what push p has issued for the record with this key.
Issue(p, key, req) ==
    requests' = [requests EXCEPT ![p][key] = Append(@, req)]

\* Lines 404-405: delete entity._id and entity._kmd.local in place; the
\* syncEntity holds the same object.
stripLocal(entity) == [entity EXCEPT !.id = NoId, !.local = FALSE]

\* Faulty variant of Task: a method that is neither DELETE nor POST / PUT
\* falls into the DELETE branch.
TaskUnrecognizedAsDelete(syncEntity) ==
    LET entity == syncEntity.entity
        local == isLocal(entity)
        base == [rec |-> syncEntity, originalId |-> entity.id, local |-> local,
                 st |-> "remote", verb |-> DELETE, error |-> NoError,
                 resp |-> NoDoc, result |-> Result(NoId, NoDoc, "pending")]
    IN  IF syncEntity.method \in {POST, PUT}
        THEN IF local
             THEN [base EXCEPT !.verb = POST,
                               !.rec = [syncEntity EXCEPT !.entity = stripLocal(entity)]]
             ELSE [base EXCEPT !.verb = PUT]
        ELSE base

\* The synchronous part of the map callback (lines 315-413, 504-508) for one
\* syncEntity: the task it leaves behind.
Task(syncEntity) ==
    LET entity == syncEntity.entity
        local == isLocal(entity)
        base == [rec |-> syncEntity, originalId |-> entity.id, local |-> local,
                 st |-> "remote", verb |-> DELETE, error |-> NoError,
                 resp |-> NoDoc, result |-> Result(NoId, NoDoc, "pending")]
    IN  IF syncEntity.method = DELETE THEN base
        ELSE IF syncEntity.method \in {POST, PUT}
        THEN IF local
             THEN [base EXCEPT !.verb = POST,
                               !.rec = [syncEntity EXCEPT !.entity = stripLocal(entity)]]
             ELSE [base EXCEPT !.verb = PUT]
        ELSE [base EXCEPT !.st = "done", !.verb = "none",
                          !.result = Result(entity.id, entity, SyncError)]

\* The remote request a task has outstanding once it is dispatched.
FirstRequest(t) ==
    IF t.verb = "none" THEN <<>>
    ELSE <<Req("remote", t.verb,
               IF t.verb = POST THEN NoId ELSE PathId(t.originalId))>>

\* batchSync (lines 308-314): take the next batch and dispatch all of it.
Dispatch(p, list, from) ==
    LET b == slice(list, from, from + batchSize)
        tasks == [k \in DOMAIN b |-> Task(b[k])]
    IN  /\ batch' = [batch EXCEPT ![p] = tasks]
        /\ i' = [i EXCEPT ![p] = from + batchSize]
        /\ requests' = [requests EXCEPT ![p] =
               [key \in 1..MaxKey |->
                   IF \E k \in DOMAIN tasks : tasks[k].rec.key = key
                   THEN LET k == CHOOSE k \in DOMAIN tasks : tasks[k].rec.key = key
                        IN  (IF from = 0 THEN <<>> ELSE requests[p][key])
                            \o FirstRequest(tasks[k])
                   ELSE IF from = 0 THEN <<>> ELSE requests[p][key]]]

\* push, lines 280-314: drain the matching records; an empty drain goes
\* straight to the return of line 544; otherwise coalesce and dispatch the
\* first batch.
pushStart(p, q) ==
    /\ pc[p] = "idle"
    /\ query' = [query EXCEPT ![p] = q]
    /\ outcome' = [outcome EXCEPT ![p] = NoOutcomes]
    /\ journal' = journal \ Matching(q)
    /\ drained' = [drained EXCEPT ![p] = Matching(q)]
    /\ failedSyncEntities' = [failedSyncEntities EXCEPT ![p] = <<>>]
    /\ syncResults' = [syncResults EXCEPT ![p] = <<>>]
    /\ IF Matching(q) = {}
       THEN /\ syncEntities' = [syncEntities EXCEPT ![p] = <<>>]
            /\ batch' = [batch EXCEPT ![p] = <<>>]
            /\ i' = [i EXCEPT ![p] = 0]
            /\ requests' = [requests EXCEPT ![p] = NoRequests]
            /\ pc' = [pc EXCEPT ![p] = "return"]
       ELSE /\ syncEntities' = [syncEntities EXCEPT ![p] = Coalesce(Matching(q))]
            /\ Dispatch(p, Coalesce(Matching(q)), 0)
            /\ pc' = [pc EXCEPT ![p] = "batch"]
    /\ returned' = NoReturn
    /\ UNCHANGED <<syncKey, rows>>

\* The document the remote answers a successful PUT or POST with.
Saved(t, srvId) ==
    [id |-> IF t.verb = POST THEN srvId ELSE PathId(t.originalId),
     local |-> FALSE, v |-> t.rec.entity.v]

\* The document the remote answers the repair GET of an entity with.
RemoteDoc(id) == [id |-> PathId(id), local |-> FALSE, v |-> RemoteV]

\* Line 339: !(NotFound) || !(InsufficientCredentials).
deleteFailed(error) ==
    error # NotFoundError \/ error # InsufficientCredentialsError

\* Faulty variant of saveFailed: only a NotFound is kept for a retry.
saveFailedOnlyNotFound(error) == error = NotFoundError

\* Line 452: !(InsufficientCredentials).
saveFailed(error) == error # InsufficientCredentialsError

\* Faulty variant of repairs: the repair runs after every error.
repairsAlways(t, error) == t.verb = DELETE \/ ~t.local

\* Lines 345 and 459-463: whether the catch handler goes on to the repair GET.
repairs(t, error) ==
    /\ error = InsufficientCredentialsError
    /\ t.verb = DELETE \/ ~t.local

\* The remote answers the DELETE, PUT or POST of task j with success.
remoteOk(p, j, srvId) ==
    LET t == batch[p][j]
    IN  /\ pc[p] = "batch"
        /\ j \in DOMAIN batch[p]
        /\ t.st = "remote"
        /\ outcome' = [outcome EXCEPT ![p][t.rec.key] = "ok"]
        /\ IF t.verb = DELETE
           THEN /\ batch' = [batch EXCEPT ![p][j] =
                       [t EXCEPT !.st = "done",
                                 !.result = Result(t.originalId, t.rec.entity, NoError)]]
                /\ UNCHANGED requests
           ELSE /\ batch' = [batch EXCEPT ![p][j] =
                       [t EXCEPT !.st = "localPut", !.resp = Saved(t, srvId)]]
                /\ Issue(p, t.rec.key, Req("local", PUT, Saved(t, srvId).id))
        /\ returned' = NoReturn
        /\ UNCHANGED <<journal, syncKey, rows, pc,
                       syncEntities, i, failedSyncEntities, syncResults, drained,
                       query>>

\* The remote answers task j with an error: the catch handlers of lines
\* 338-384 and 451-501 up to their first await.
remoteError(p, j, error) ==
    LET t == batch[p][j]
        failed == IF t.verb = DELETE THEN deleteFailed(error) ELSE saveFailed(error)
    IN  /\ pc[p] = "batch"
        /\ j \in DOMAIN batch[p]
        /\ t.st = "remote"
        /\ outcome' = [outcome EXCEPT ![p][t.rec.key] = error]
        /\ failedSyncEntities' = [failedSyncEntities EXCEPT ![p] =
               IF failed THEN Append(@, t.rec) ELSE @]
        /\ IF repairs(t, error)
           THEN /\ batch' = [batch EXCEPT ![p][j] =
                       [t EXCEPT !.st = "repairGet", !.error = error]]
                /\ Issue(p, t.rec.key, Req("remote", GET, PathId(t.originalId)))
           ELSE /\ batch' = [batch EXCEPT ![p][j] =
                       [t EXCEPT !.st = "done", !.error = error,
                                 !.result = Result(t.originalId, t.rec.entity, error)]]
                /\ UNCHANGED requests
        /\ returned' = NoReturn
        /\ UNCHANGED <<journal, syncKey, rows, pc,
                       syncEntities, i, syncResults, drained,
                       query>>

\* Line 428: the local PUT of the document the remote returned completes
\* (the local table's requests succeed in this model).
localPut(p, j) ==
    LET t == batch[p][j]
    IN  /\ pc[p] = "batch"
        /\ j \in DOMAIN batch[p]
        /\ t.st = "localPut"
        /\ rows' = [rows EXCEPT ![t.resp.id] = t.resp]
        /\ IF t.local
           THEN /\ batch' = [batch EXCEPT ![p][j] = [t EXCEPT !.st = "localDelete"]]
                /\ Issue(p, t.rec.key, Req("local", DELETE, PathId(t.originalId)))
           ELSE /\ batch' = [batch EXCEPT ![p][j] =
                       [t EXCEPT !.st = "done",
                                 !.result = Result(t.originalId, t.resp, NoError)]]
                /\ UNCHANGED requests
        /\ returned' = NoReturn
        /\ UNCHANGED <<journal, syncKey, pc, syncEntities,
                       i, failedSyncEntities, syncResults, drained,
                       outcome, query>>

\* Line 443: the local DELETE of the row under the device-generated id.
localDelete(p, j) ==
    LET t == batch[p][j]
    IN  /\ pc[p] = "batch"
        /\ j \in DOMAIN batch[p]
        /\ t.st = "localDelete"
        /\ rows' = [rows EXCEPT ![PathId(t.originalId)] = NoDoc]
        /\ batch' = [batch EXCEPT ![p][j] =
               [t EXCEPT !.st = "done",
                         !.result = Result(t.originalId, t.resp, NoError)]]
        /\ returned' = NoReturn
        /\ UNCHANGED <<journal, syncKey, pc, syncEntities,
                       i, failedSyncEntities, syncResults, drained, requests,
                       outcome, query>>

\* Lines 360 / 476: the repair GET answers; a failure is thrown away.
repairGet(p, j, ok) ==
    LET t == batch[p][j]
    IN  /\ pc[p] = "batch"
        /\ j \in DOMAIN batch[p]
        /\ t.st = "repairGet"
        /\ IF ok
           THEN /\ batch' = [batch EXCEPT ![p][j] =
                       [t EXCEPT !.st = "repairPut",
                                 !.resp = RemoteDoc(t.originalId)]]
                /\ Issue(p, t.rec.key, Req("local", PUT, PathId(t.originalId)))
           ELSE /\ batch' = [batch EXCEPT ![p][j] =
                       [t EXCEPT !.st = "done",
                                 !.result = Result(t.originalId, t.rec.entity, t.error)]]
                /\ UNCHANGED requests
        /\ returned' = NoReturn
        /\ UNCHANGED <<journal, syncKey, rows, pc,
                       syncEntities, i, failedSyncEntities, syncResults, drained,
                       outcome, query>>

\* Lines 372 / 488: the local row is overwritten with what the GET returned.
repairPut(p, j) ==
    LET t == batch[p][j]
    IN  /\ pc[p] = "batch"
        /\ j \in DOMAIN batch[p]
        /\ t.st = "repairPut"
        /\ rows' = [rows EXCEPT ![PathId(t.originalId)] = t.resp]
        /\ batch' = [batch EXCEPT ![p][j] =
               [t EXCEPT !.st = "done",
                         !.result = Result(t.originalId, t.rec.entity, t.error)]]
        /\ returned' = NoReturn
        /\ UNCHANGED <<journal, syncKey, pc, syncEntities,
                       i, failedSyncEntities, syncResults, drained, requests,
                       outcome, query>>

\* Faulty variant of batchDone: the next batch is dispatched as soon as one
\* task of the batch has its result (Promise.race for Promise.all).
batchDoneEarly(p) ==
    /\ pc[p] = "batch"
    /\ \E j \in DOMAIN batch[p] : batch[p][j].st = "done"
    /\ i[p] < Len(syncEntities[p])
    /\ syncResults' = [syncResults EXCEPT ![p] =
           @ \o [j \in DOMAIN batch[p] |-> batch[p][j].result]]
    /\ Dispatch(p, syncEntities[p], i[p])
    /\ returned' = NoReturn
    /\ UNCHANGED <<journal, syncKey, rows, pc, syncEntities,
                   failedSyncEntities, drained, outcome, query>>

\* Lines 509-520: Promise.all of the batch resolves; concat the results and
\* dispatch the next batch.
batchDone(p) ==
    /\ pc[p] = "batch"
    /\ \A j \in DOMAIN batch[p] : batch[p][j].st = "done"
    /\ i[p] < Len(syncEntities[p])
    /\ syncResults' = [syncResults EXCEPT ![p] =
           @ \o [j \in DOMAIN batch[p] |-> batch[p][j].result]]
    /\ Dispatch(p, syncEntities[p], i[p])
    /\ returned' = NoReturn
    /\ UNCHANGED <<journal, syncKey, rows, pc, syncEntities,
                   failedSyncEntities, drained,
                       outcome, query>>

\* Faulty variant of reinstate: the PUT replaces the sync table by the failed
\* sync entities instead of adding them to it.
reinstateOverwrites(p) ==
    /\ pc[p] = "batch"
    /\ \A j \in DOMAIN batch[p] : batch[p][j].st = "done"
    /\ ~(i[p] < Len(syncEntities[p]))
    /\ syncResults' = [syncResults EXCEPT ![p] =
           @ \o [j \in DOMAIN batch[p] |-> batch[p][j].result]]
    /\ batch' = [batch EXCEPT ![p] = <<>>]
    /\ journal' = Range(failedSyncEntities[p])
    /\ pc' = [pc EXCEPT ![p] = "return"]
    /\ returned' = NoReturn
    /\ UNCHANGED <<syncKey, rows, syncEntities, i, failedSyncEntities,
                   drained, requests, outcome, query>>

\* Lines 509-540 after the last batch: resolve with all the results, then put
\* the failed sync entities back into the sync table.
reinstate(p) ==
    /\ pc[p] = "batch"
    /\ \A j \in DOMAIN batch[p] : batch[p][j].st = "done"
    /\ ~(i[p] < Len(syncEntities[p]))
    /\ syncResults' = [syncResults EXCEPT ![p] =
           @ \o [j \in DOMAIN batch[p] |-> batch[p][j].result]]
    /\ batch' = [batch EXCEPT ![p] = <<>>]
    /\ journal' = journal \cup Range(failedSyncEntities[p])
    /\ pc' = [pc EXCEPT ![p] = "return"]
    /\ returned' = NoReturn
    /\ UNCHANGED <<syncKey, rows, syncEntities, i, failedSyncEntities,
                   drained, requests,
                       outcome, query>>

\* Line 544: return syncResults; the locals of the call are gone with it.
pushReturn(p) ==
    /\ pc[p] = "return"
    /\ returned' = [op |-> "push", value |-> syncResults[p]]
    /\ pc' = [pc EXCEPT ![p] = "idle"]
    /\ syncEntities' = [syncEntities EXCEPT ![p] = <<>>]
    /\ i' = [i EXCEPT ![p] = 0]
    /\ batch' = [batch EXCEPT ![p] = <<>>]
    /\ failedSyncEntities' = [failedSyncEntities EXCEPT ![p] = <<>>]
    /\ syncResults' = [syncResults EXCEPT ![p] = <<>>]
    /\ drained' = [drained EXCEPT ![p] = {}]
    /\ requests' = [requests EXCEPT ![p] = NoRequests]
    /\ outcome' = [outcome EXCEPT ![p] = NoOutcomes]
    /\ query' = [query EXCEPT ![p] = {}]
    /\ UNCHANGED <<journal, syncKey, rows>>

\* clear(query): delete the matching records from the sync table.
clear(q) ==
    /\ journal' = journal \ Matching(q)
    /\ returned' = [op |-> "clear"]
    /\ UNCHANGED <<syncKey, rows>>
    /\ UNCHANGED pushVars

(* ------------------------------- Spec --------------------------------- *)

\* The caller keeps to one push at a time (push 1).
NoPushRunning == \A p \in Pushes : pc[p] = "idle"

\* In Spec the caller counts and clears between pushes, not during one.
Count ==
    \E q \in Queries : NoPushRunning /\ count(q) /\ UNCHANGED adapterVars
EnqueueCreateOrUpdate ==
    \E in \in EnqueueInputs :
        createSaveOperation(in[1], in[2]) /\ UNCHANGED adapterVars
EnqueueDelete ==
    \E in \in EnqueueInputs :
        createDeleteOperation(in[1], in[2]) /\ UNCHANGED adapterVars
PutUnrecognized ==
    \E id \in EntityIds : putUnrecognized(id) /\ UNCHANGED adapterVars
PushStart ==
    \E q \in Queries :
        NoPushRunning /\ pushStart(1, q) /\ UNCHANGED adapterVars
RemoteOk ==
    \E j \in 1..batchSize, s \in SrvIds :
        remoteOk(1, j, s) /\ UNCHANGED adapterVars
RemoteError ==
    \E j \in 1..batchSize, e \in RemoteErrors :
        remoteError(1, j, e) /\ UNCHANGED adapterVars
LocalPut == \E j \in 1..batchSize : localPut(1, j) /\ UNCHANGED adapterVars
LocalDelete ==
    \E j \in 1..batchSize : localDelete(1, j) /\ UNCHANGED adapterVars
RepairGet ==
    \E j \in 1..batchSize, ok \in BOOLEAN :
        repairGet(1, j, ok) /\ UNCHANGED adapterVars
RepairPut == \E j \in 1..batchSize : repairPut(1, j) /\ UNCHANGED adapterVars
BatchDone == batchDone(1) /\ UNCHANGED adapterVars
Reinstate == reinstate(1) /\ UNCHANGED adapterVars
PushReturn == pushReturn(1) /\ UNCHANGED adapterVars
Clear ==
    \E q \in Queries : NoPushRunning /\ clear(q) /\ UNCHANGED adapterVars

Next ==
    \/ Count
    \/ EnqueueCreateOrUpdate
    \/ EnqueueDelete
    \/ PutUnrecognized
    \/ PushStart
    \/ RemoteOk
    \/ RemoteError
    \/ LocalPut
    \/ LocalDelete
    \/ RepairGet
    \/ RepairPut
    \/ BatchDone
    \/ Reinstate
    \/ PushReturn
    \/ Clear

Spec == Init /\ [][Next]_vars

(* ------------------------------ claims -------------------------------- *)

\* Push 1 stands at the return of line 544: what it returns is syncResults[1]
\* and the sync table is as the call leaves it.
AtReturn == pc[1] = "return"

\* The record of the coalesced list that result n belongs to.
Dispatched == DOMAIN syncEntities[1]
Rec(n) == syncEntities[1][n]

\* The remote requests push 1 issued for the record with this key.
RemoteRequests(key) ==
    {n \in DOMAIN requests[1][key] : requests[1][key][n].to = "remote"}
MutatingRequests(key) ==
    {n \in RemoteRequests(key) : requests[1][key][n].method \in {PUT, POST, DELETE}}
LocalWrites(key) ==
    {n \in DOMAIN requests[1][key] : requests[1][key][n].to = "local"}

\* The entityIds the coalesced list holds more than once.
Duplicated ==
    {Rec(m).entityId : m \in {m \in Dispatched :
        \E n \in Dispatched : n # m /\ Rec(n).entityId = Rec(m).entityId}}

\* C1: the list push dispatches holds at most one record per entityId, for
\* each entityId the drained record with the largest key, and no entityId
\* gets more than one PUT/POST/DELETE in one push.
C1_OneRecordPerEntity ==
    pc[1] \in {"batch", "return"} =>
        /\ \A m \in Dispatched, n \in Dispatched :
               m # n => Rec(m).entityId # Rec(n).entityId
        /\ \A n \in Dispatched : \A r \in drained[1] :
               r.entityId = Rec(n).entityId => r.key <= Rec(n).key
        /\ \A e \in EntityIds :
               Cardinality({r \in drained[1] :
                   r.entityId = e /\ MutatingRequests(r.key) # {}}) <= 1

\* C2: count() with no query returns the number of distinct entityIds in the
\* sync table.
C2_CountDistinct ==
    (returned.op = "count" /\ returned.query = AllQuery) =>
        returned.value = Cardinality({r.entityId : r \in journal})

\* Whether the sync table holds a record with this key.
InJournal(key) == \E r \in journal : r.key = key

\* The remote's answer to the PUT/POST/DELETE of the record of result n.
Outcome(n) == outcome[1][Rec(n).key]

\* C3: a record whose remote operation fails with an error that is neither
\* InsufficientCredentials nor NotFound is in the sync table, with the key it
\* had, when push returns, and its result carries the error.
C3_OtherErrorReinstated ==
    AtReturn =>
        \A n \in Dispatched :
            Outcome(n) = NetworkError =>
                /\ \E r \in journal :
                       r.key = Rec(n).key /\ r.entityId = Rec(n).entityId
                /\ syncResults[1][n].error = NetworkError

C3_Witness ==
    /\ AtReturn
    /\ \E n \in Dispatched : Outcome(n) = NetworkError /\ Rec(n).method = POST
    /\ \E n \in Dispatched : Outcome(n) = NetworkError /\ Rec(n).method = DELETE

\* C4: a DELETE the remote answers with NotFound counts as a success: its
\* result has no error and the record is not in the sync table when push
\* returns.
C4_NotFoundOnDeleteIsSuccess ==
    AtReturn =>
        \A n \in Dispatched :
            (Rec(n).method = DELETE /\ Outcome(n) = NotFoundError) =>
                /\ syncResults[1][n].error = NoError
                /\ ~InJournal(Rec(n).key)

\* C5: a record whose remote operation fails with InsufficientCredentials,
\* whatever its method, is not in the sync table when push returns, and its
\* result carries the error.
C5_ForbiddenNotReinstated ==
    AtReturn =>
        \A n \in Dispatched :
            Outcome(n) = InsufficientCredentialsError =>
                /\ ~InJournal(Rec(n).key)
                /\ syncResults[1][n].error = InsufficientCredentialsError

\* The repair GET of the record of result n succeeded: only then does a
\* record that failed with InsufficientCredentials get a local write.
RepairGetOk(n) ==
    /\ Outcome(n) = InsufficientCredentialsError
    /\ LocalWrites(Rec(n).key) # {}

\* C6: when the PUT or DELETE of a server-known entity fails with
\* InsufficientCredentials and the repair GET succeeds, the local row under
\* the entity's _id is the document the GET returned when push returns.
C6_RepairOverwritesRow ==
    AtReturn =>
        \A n \in Dispatched :
            (~Rec(n).entity.local /\ RepairGetOk(n)) =>
                rows[PathId(Rec(n).entity.id)] = RemoteDoc(Rec(n).entity.id)

\* C7: after the POST of a local-marked entity with device id L succeeded
\* with a document under server id S, the local table holds that document
\* under S and no row under L when push returns, and the result is
\* {_id: L, entity: the document}.
C7_LocalCreateSwapsRow ==
    AtReturn =>
        \A n \in Dispatched :
            (Rec(n).entity.local /\ Rec(n).method \in {POST, PUT}
                /\ Outcome(n) = "ok") =>
                LET res == syncResults[1][n]
                IN  /\ res.id = Rec(n).entity.id
                    /\ res.error = NoError
                    /\ res.entity.id \in SrvIds
                    /\ res.entity.v = Rec(n).entity.v
                    /\ rows[res.entity.id] = res.entity
                    /\ rows[Rec(n).entity.id] = NoDoc

\* C8: a push whose query matches no record of the sync table returns the
\* empty list, issues no request and writes neither the sync table nor the
\* collection table.
C8_EmptyPushIsNoOp ==
    [][/\ (pc[1] = "idle" /\ pc'[1] # "idle"
              /\ {r \in journal : r.entityId \in query'[1]} = {}) =>
           /\ pc'[1] = "return"
           /\ syncResults'[1] = <<>>
           /\ requests'[1] = NoRequests
           /\ journal' = journal
           /\ rows' = rows
       /\ (pc[1] = "return" /\ pc'[1] = "idle" /\ drained[1] = {}) =>
           /\ returned' = [op |-> "push", value |-> <<>>]
           /\ journal' = journal
           /\ rows' = rows]_vars

C8_Witness ==
    /\ AtReturn
    /\ drained[1] = {}
    /\ journal # {}
    /\ {r \in journal : r.entityId \in query[1]} = {}

\* C9: whatever the remote answers, push returns one result per coalesced
\* record, in the order of the coalesced list (descending key), each with the
\* _id of its record's entity, and every record with a recognized method was
\* dispatched.
C9_OneResultPerRecord ==
    AtReturn =>
        /\ Len(syncResults[1]) = Len(syncEntities[1])
        /\ \A m \in Dispatched, n \in Dispatched :
               m < n => Rec(m).key > Rec(n).key
        /\ \A n \in Dispatched :
               /\ syncResults[1][n].id = Rec(n).entityId
               /\ syncResults[1][n].error # "pending"
               /\ Rec(n).method \in {POST, PUT, DELETE} =>
                      MutatingRequests(Rec(n).key) # {}

\* C10: for every result push returns, exactly one remote operation was
\* dispatched for its record.
C10_ExactlyOneRemoteOperation ==
    AtReturn =>
        \A n \in Dispatched : Cardinality(RemoteRequests(Rec(n).key)) = 1

\* C10, amended: a record with a recognized method gets exactly one
\* PUT/POST/DELETE, and besides it at most the one repair GET, which is issued
\* only after InsufficientCredentials; a record with an unrecognized method
\* gets a result and no remote operation.
C10_OneMutatingOperation ==
    AtReturn =>
        \A n \in Dispatched :
            LET key == Rec(n).key
                gets == RemoteRequests(key) \ MutatingRequests(key)
            IN  /\ Len(syncResults[1]) = Len(syncEntities[1])
                /\ IF Rec(n).method \in {POST, PUT, DELETE}
                   THEN Cardinality(MutatingRequests(key)) = 1
                   ELSE RemoteRequests(key) = {}
                /\ Cardinality(gets) <= 1
                /\ gets # {} => Outcome(n) = InsufficientCredentialsError

C10_Witness ==
    /\ AtReturn
    /\ \E n \in Dispatched : Cardinality(RemoteRequests(Rec(n).key)) = 2
    /\ \E n \in Dispatched : RemoteRequests(Rec(n).key) = {}

(* ---------------- SpecFree: clear and count during a push -------------- *)

\* The caller clears and counts while push 1 is between its drain and its
\* return (nothing in sync.js keeps it from doing so).
ClearDuringPush ==
    \E q \in Queries : ~NoPushRunning /\ clear(q) /\ UNCHANGED adapterVars
CountDuringPush ==
    \E q \in Queries : ~NoPushRunning /\ count(q) /\ UNCHANGED adapterVars

NextFree ==
    \/ Next
    \/ ClearDuringPush
    \/ CountDuringPush

SpecFree == Init /\ [][NextFree]_vars

\* The records a step adds to the sync table.
Written == journal' \ journal

\* C11: across every interleaving of enqueues, push and clear, each record an
\* enqueue writes takes a key above every key assigned before it (the counter
\* before the call), the counter never goes back, and no two records of the
\* sync table carry the same key.
C11_KeysStrictlyIncrease ==
    [][/\ syncKey' >= syncKey
       /\ returned'.op = "enqueue" =>
              /\ \A r \in Written : r.key > syncKey /\ r.key <= syncKey'
              /\ \A r \in Written, s \in Written : r.key = s.key => r = s
       /\ \A r \in journal', s \in journal' : r.key = s.key => r = s]_vars

\* An enqueue wrote the record with the largest key while push 1 was running
\* and records with smaller keys had been drained.
C11_Witness ==
    /\ pc[1] = "batch"
    /\ returned.op = "enqueue"
    /\ drained[1] # {}
    /\ syncKey = MaxKey
    /\ \E r \in journal : r.key = MaxKey /\ r.method \in {POST, DELETE}

\* The positions of an array whose entity has an _id.
WithId(entities) == {k \in DOMAIN entities : entities[k].id # NoId}

\* What a call of enqueue with this input has to leave behind.
EnqueueChecked(collection, entities) ==
    IF collection = ""
    THEN /\ returned'.error = SyncError
         /\ journal' = journal
         /\ syncKey' = syncKey
    ELSE /\ WithId(entities) # DOMAIN entities => returned'.error = SyncError
         /\ WithId(entities) = DOMAIN entities => returned'.error = NoError
         /\ syncKey' = syncKey + Cardinality(WithId(entities))
         /\ Cardinality(Written) = Cardinality(WithId(entities))
         /\ \A r \in Written :
                r.entityId # NoId /\ r.entity.id = r.entityId

\* C12: an enqueue of an entity without _id throws SyncError, advances the
\* counter and writes a record only for the entities that have an _id; an
\* enqueue without a collection name throws SyncError and changes neither the
\* counter nor the sync table; every record of the sync table has a non-empty
\* entityId and collection.
C12_MissingIdOrNameRefused ==
    [][/\ \A in \in EnqueueInputs :
              (createSaveOperation(in[1], in[2])
                  \/ createDeleteOperation(in[1], in[2]))
              => EnqueueChecked(in[1], in[2])
       /\ \A r \in journal' : r.entityId # NoId /\ r.collection # ""]_vars

\* An array with one entity lacking its _id was refused with SyncError after
\* a call without a collection name could have written; the sync table holds
\* the record of the other entity only.
C12_Witness ==
    /\ returned.op = "enqueue"
    /\ returned.error = SyncError
    /\ syncKey = 1
    /\ Cardinality(journal) = 1

\* C13: a record an enqueue writes between the drain of a push and its return
\* is in the sync table when the push returns: no step of the push, its
\* reinstate write included, takes a record out of the sync table after the
\* drain; and the next push drains every record that matches its query.
C13_EnqueueDuringPushKept ==
    [][/\ (pc[1] # "idle" /\ returned'.op = "enqueue"
              /\ returned'.error = NoError) => Written # {}
       /\ pc[1] # "idle" => journal \subseteq journal'
       /\ (pc[1] = "idle" /\ pc'[1] # "idle") =>
              /\ drained'[1] = {r \in journal : r.entityId \in query'[1]}
              /\ journal' = journal \ drained'[1]]_vars

\* Push 1 returns with a failed record reinstated next to a record that was
\* enqueued, with a larger key than every drained record, while it ran.
C13_Witness ==
    /\ AtReturn
    /\ \E r \in journal : r \in Range(failedSyncEntities[1])
    /\ \E r \in journal :
           /\ r.entityId \in query[1]
           /\ \A d \in drained[1] : d.key < r.key

(* -------------------- SpecCrash: the process stops -------------------- *)

\* The process stops while push p is between its drain and its return: what
\* the call held in memory (lines 281-284, 298) is gone, the sync table and
\* the collection table are as they were written.
crash(p) ==
    /\ pc[p] # "idle"
    /\ pc' = [pc EXCEPT ![p] = "idle"]
    /\ syncEntities' = [syncEntities EXCEPT ![p] = <<>>]
    /\ i' = [i EXCEPT ![p] = 0]
    /\ batch' = [batch EXCEPT ![p] = <<>>]
    /\ failedSyncEntities' = [failedSyncEntities EXCEPT ![p] = <<>>]
    /\ syncResults' = [syncResults EXCEPT ![p] = <<>>]
    /\ drained' = [drained EXCEPT ![p] = {}]
    /\ requests' = [requests EXCEPT ![p] = NoRequests]
    /\ outcome' = [outcome EXCEPT ![p] = NoOutcomes]
    /\ query' = [query EXCEPT ![p] = {}]
    /\ returned' = NoReturn
    /\ UNCHANGED <<journal, syncKey, rows>>

Crash == crash(1) /\ UNCHANGED adapterVars

NextCrash ==
    \/ Next
    \/ Crash

SpecCrash == Init /\ [][NextCrash]_vars

\* Record n of the coalesced list belongs to a batch that was not dispatched.
NotStarted(n) == n > i[1]

\* Record n failed in a batch that is complete (not the batch in flight).
FailedEarlier(n) ==
    /\ n <= i[1] - batchSize
    /\ \E f \in Range(failedSyncEntities[1]) : f.key = Rec(n).key

\* C14: when the process stops during a push, the records of batches not yet
\* started and the records that failed in earlier batches are in the sync
\* table afterwards; only records of the batch in flight are missing.
C14_CrashLosesOnlyInFlight ==
    [][(pc[1] = "batch" /\ pc'[1] = "idle") =>
          \A n \in Dispatched :
              (NotStarted(n) \/ FailedEarlier(n)) =>
                  \E r \in journal' : r.key = Rec(n).key]_vars

\* The terminal outcomes of the record of result n when push returns.
Acknowledged(n) == Outcome(n) = "ok"
Repaired(n) == Outcome(n) = InsufficientCredentialsError
Reinstated(n) == InJournal(Rec(n).key)
Abandoned(n) == Rec(n).method \notin {POST, PUT, DELETE}

\* C17: every record push dispatched ends in exactly one of acknowledged,
\* repaired (dropped after InsufficientCredentials), reinstated and
\* abandoned; no record is both repaired and reinstated.
C17_OneTerminalOutcome ==
    AtReturn =>
        \A n \in Dispatched :
            /\ Cardinality({o \in {"ack", "rep", "rei", "aba"} :
                   \/ o = "ack" /\ Acknowledged(n)
                   \/ o = "rep" /\ Repaired(n)
                   \/ o = "rei" /\ Reinstated(n)
                   \/ o = "aba" /\ Abandoned(n)}) = 1
            /\ ~(Repaired(n) /\ Reinstated(n))

\* C18: a drained record with an unrecognized method gets a result carrying
\* a SyncError, no remote operation and no local write, and is not in the
\* sync table when push returns.
C18_UnrecognizedAbandoned ==
    AtReturn =>
        \A n \in Dispatched :
            Abandoned(n) =>
                /\ syncResults[1][n] = Result(Rec(n).entity.id, Rec(n).entity, SyncError)
                /\ requests[1][Rec(n).key] = <<>>
                /\ outcome[1][Rec(n).key] = "none"
                /\ ~Reinstated(n)

\* Push returns after it abandoned one record and reinstated another.
C18_Witness ==
    /\ AtReturn
    /\ \E n \in Dispatched : Abandoned(n)
    /\ \E n \in Dispatched : ~Abandoned(n) /\ Reinstated(n)

\* The result of record n as the remote's answer to its own operation
\* determines it (lines 335-337, 378-383, 445-449, 495-499, 504-508).
ExpectedResult(n) ==
    LET t == Task(Rec(n))
        o == Outcome(n)
    IN  IF t.verb = "none" THEN t.result
        ELSE IF o # "ok" THEN Result(t.originalId, t.rec.entity, o)
        ELSE IF t.verb = DELETE THEN Result(t.originalId, t.rec.entity, NoError)
        ELSE Result(t.originalId, Saved(t, CHOOSE s \in SrvIds : TRUE), NoError)

\* Whether the answer to record n puts it among the failed sync entities.
ExpectedFailed(n) ==
    LET t == Task(Rec(n))
    IN  /\ t.verb # "none"
        /\ Outcome(n) # "ok"
        /\ IF t.verb = DELETE THEN deleteFailed(Outcome(n))
           ELSE saveFailed(Outcome(n))

\* The records of the batch in flight.
InFlight(n) == n > i[1] - batchSize /\ n <= i[1]

\* C19: batches are processed one after the other: while a batch is in
\* flight every record of the earlier batches has its complete result and no
\* record of a later batch has been dispatched, and every record of the batch
\* in flight has its remote operation outstanding or answered; when push
\* returns, each result and the sync table depend on the remote's answers
\* only, not on the order in which the operations of a batch completed.
C19_BatchesSequential ==
    /\ pc[1] = "batch" =>
           /\ Len(syncResults[1]) = i[1] - batchSize
           /\ \A m \in DOMAIN syncResults[1] : syncResults[1][m].error # "pending"
           /\ \A n \in Dispatched :
                  /\ NotStarted(n) =>
                         requests[1][Rec(n).key] = <<>> /\ Outcome(n) = "none"
                  /\ (InFlight(n) /\ ~Abandoned(n)) =>
                         Cardinality(MutatingRequests(Rec(n).key)) = 1
    /\ AtReturn =>
           /\ Len(syncResults[1]) = Len(syncEntities[1])
           /\ \A n \in Dispatched :
                  /\ syncResults[1][n] = ExpectedResult(n)
                  /\ ExpectedFailed(n) <=> Task(Rec(n)).rec \in journal
                  /\ ExpectedFailed(n) <=> Reinstated(n)

\* In a batch of two the second operation failed and has its result while
\* the first is still outstanding, and a further batch waits.
C19_Witness ==
    /\ pc[1] = "batch"
    /\ Len(syncEntities[1]) > i[1]
    /\ Len(batch[1]) = batchSize
    /\ batch[1][1].st = "remote"
    /\ batch[1][batchSize].st = "done"
    /\ batch[1][batchSize].error = NetworkError

\* C20: when the remote operation of a record whose entity is local-marked
\* fails with InsufficientCredentials, push issues no repair GET and makes no
\* local write for it, whether the record is a save or a DELETE.
C20_LocalSkipsRepair ==
    AtReturn =>
        \A n \in Dispatched :
            (Rec(n).entity.local /\ Outcome(n) = InsufficientCredentialsError) =>
                /\ RemoteRequests(Rec(n).key) \ MutatingRequests(Rec(n).key) = {}
                /\ LocalWrites(Rec(n).key) = {}

(* ------------------- storage adapter (WebSQL), part_000 ---------------- *)

\* One entry of sqlQueries: the statement and its parameters.
Stmt(sql, key, value) == [sql |-> sql, key |-> key, value |-> value]

\* The arrays of documents handed to save.
DocArrays == {<<d>> : d \in Docs} \cup {<<d, e>> : d \in Docs, e \in Docs}

\* execute(dbName, tableName, sqlQueries, write), lines 186-194: the promise
\* is created and the transaction asked for.  `op`, `table` and `docs` keep
\* what the calling function was called with.
execute(op, table, docs, tableName, sqlQueries, write) ==
    /\ call.st \in {"idle", "finished"}
    /\ call' = [op |-> op, table |-> table, tableName |-> tableName,
                sqlQueries |-> sqlQueries, write |-> write, docs |-> docs,
                st |-> "open", next |-> 1, tx |-> db, responses |-> <<>>,
                promise |-> "pending", error |-> "none"]
    /\ UNCHANGED db
    /\ UNCHANGED vars

\* Lines 258-286: the functions of the adapter up to their await.
find(tableName) ==
    execute("find", tableName, <<>>, tableName,
            <<Stmt("SELECT", "", NoRow)>>, FALSE)

findById(tableName, id) ==
    execute("findById", tableName, <<>>, tableName,
            <<Stmt("SELECT WHERE key", id, NoRow)>>, FALSE)

save(tableName, docs) ==
    execute("save", tableName, docs, tableName,
            [k \in DOMAIN docs |->
                Stmt("REPLACE", docs[k].id, stringify(docs[k]))], TRUE)

removeById(tableName, id) ==
    execute("removeById", tableName, <<>>, tableName,
            <<Stmt("DELETE WHERE key", id, NoRow)>>, TRUE)

clearTable(tableName) ==
    execute("clear", tableName, <<>>, MASTER_TABLE_NAME,
            <<Stmt("DROP TABLE IF EXISTS", tableName, NoRow)>>, TRUE)

\* Line 188.
isMaster(tableName) == tableName = MASTER_TABLE_NAME

\* Lines 195-204: the transaction callback; a write to a table other than
\* the master table first runs CREATE TABLE IF NOT EXISTS.
transactionCallback ==
    /\ call.st = "open"
    /\ call' = [call EXCEPT
           !.st = "statements",
           !.tx = IF call.write /\ ~isMaster(call.tableName)
                  THEN [@ EXCEPT ![call.tableName].exists = TRUE]
                  ELSE @]
    /\ UNCHANGED db
    /\ UNCHANGED vars

\* The rows a SELECT returns, parsed (lines 215-225), in key order.
Selected(t, stmt) ==
    LET hit(k) == /\ t.rows[k] # NoRow
                  /\ stmt.sql = "SELECT WHERE key" => k = stmt.key
        keys == SelectSeq(KeyOrder, hit)
    IN  [n \in DOMAIN keys |-> parse(t.rows[keys[n]])]

\* What a statement does to the tables the transaction sees.
Applied(tx, stmt) ==
    IF stmt.sql = "REPLACE"
    THEN [tx EXCEPT ![call.tableName].rows[stmt.key] = stmt.value]
    ELSE IF stmt.sql = "DELETE WHERE key"
    THEN [tx EXCEPT ![call.tableName].rows[stmt.key] = NoRow]
    ELSE IF stmt.sql = "DROP TABLE IF EXISTS"
    THEN [tx EXCEPT ![stmt.key] = NoTable]
    ELSE tx

\* SQLite refuses a statement that names a table which does not exist,
\* except DROP TABLE IF EXISTS.
NoSuchTable(tx, stmt) ==
    /\ stmt.sql # "DROP TABLE IF EXISTS"
    /\ ~tx[call.tableName].exists

\* Lines 207-229: tx.executeSql of the next statement.  It is given a success
\* callback only: a statement that fails rolls the transaction back and the
\* transaction's error callback, `reject` (line 233), is called.
executeSql ==
    LET stmt == call.sqlQueries[call.next]
    IN  /\ call.st = "statements"
        /\ call.next <= Len(call.sqlQueries)
        /\ IF NoSuchTable(call.tx, stmt)
           THEN call' = [call EXCEPT !.st = "finished", !.promise = "rejected",
                                     !.error = "no such table"]
           ELSE call' = [call EXCEPT
                    !.next = @ + 1,
                    !.tx = Applied(@, stmt),
                    !.responses = Append(@,
                        IF stmt.sql \in {"SELECT", "SELECT WHERE key"}
                        THEN Selected(call.tx[call.tableName], stmt)
                        ELSE <<>>)]
        /\ UNCHANGED db
        /\ UNCHANGED vars

\* Lines 205-232: every statement has called back, Promise.all resolves and
\* the transaction commits.  Nothing is chained to that promise and the
\* transaction is given no success callback: `resolve` of line 190 is not
\* called.
allStatementsDone ==
    /\ call.st = "statements"
    /\ call.next > Len(call.sqlQueries)
    /\ db' = call.tx
    /\ call' = [call EXCEPT !.st = "finished"]
    /\ UNCHANGED vars

\* Lines 233 and 252-254: the database cannot be opened or the transaction
\* fails for a reason of the platform's; it is rolled back and `reject` runs.
transactionError ==
    /\ call.st \in {"open", "statements"}
    /\ call' = [call EXCEPT !.st = "finished", !.promise = "rejected",
                            !.error = "platform"]
    /\ UNCHANGED db
    /\ UNCHANGED vars

\* The promise of the async function that awaits execute (lines 258-286):
\* it settles when execute's promise does, with the function's return value.
Settled(c) ==
    IF c.promise = "rejected" THEN [state |-> "rejected", value |-> c.error]
    ELSE IF c.promise # "resolved" THEN [state |-> c.promise, value |-> "none"]
    ELSE [state |-> "resolved",
          value |-> IF c.op = "find" THEN c.responses[1]
                    ELSE IF c.op = "findById"
                    THEN (IF c.responses[1] = <<>> THEN <<>>
                          ELSE <<Head(c.responses[1])>>)
                    ELSE IF c.op = "save" THEN c.docs
                    ELSE <<>>]

Find == \E t \in Tables : find(t)
FindById == \E t \in Tables, id \in Keys : findById(t, id)
Save == \E t \in Tables, docs \in DocArrays : save(t, docs)
RemoveById == \E t \in Tables, id \in Keys : removeById(t, id)
ClearTable == \E t \in Tables : clearTable(t)

NextAdapter ==
    \/ Find
    \/ FindById
    \/ Save
    \/ RemoveById
    \/ ClearTable
    \/ transactionCallback
    \/ executeSql
    \/ allStatementsDone
    \/ transactionError

SpecAdapter == Init /\ [][NextAdapter]_adapterVars

\* C15: find and findById against a table that does not exist complete with
\* an empty result, never with an error (the platform's own failures apart),
\* and a table comes into existence only by a save.
C15_MissingTableReadsEmpty ==
    [][/\ (/\ call'.st = "finished"
           /\ call'.op \in {"find", "findById"}
           /\ ~db'[call'.table].exists
           /\ call'.error # "platform") =>
              /\ Settled(call').state = "resolved"
              /\ Settled(call').value = <<>>
       /\ \A t \in Tables :
              (~db[t].exists /\ db'[t].exists) => call.op = "save"]_adapterVars

\* C16: when the transaction of a call has run all its statements
\* successfully the call's promise is settled (no step of the call is left
\* that could settle it later); for save it carries the saved docs and the
\* table then holds, under each saved doc's _id, a row that reads back as
\* that doc.
C16_CallCompletes ==
    (call.st = "finished" /\ call.error = "none") =>
        /\ Settled(call).state = "resolved"
        /\ call.op = "save" =>
               /\ Settled(call).value = call.docs
               /\ \A k \in DOMAIN call.docs :
                      parse(db[call.table].rows[call.docs[k].id]) = call.docs[k]

(* ------------- SpecLocalFail: requests to the local table fail --------- *)

\* The error a LocalRequest to the collection table rejects with.
LocalError == "LocalError"

\* Lines 428 / 443 reject: the local PUT of the returned document, or the
\* local DELETE of the row under the device-generated id, fails.  The
\* rejection falls into the catch of lines 451-501 after the remote call
\* succeeded.
localWriteFails(p, j) ==
    LET t == batch[p][j]
    IN  /\ pc[p] = "batch"
        /\ j \in DOMAIN batch[p]
        /\ t.st \in {"localPut", "localDelete"}
        /\ failedSyncEntities' = [failedSyncEntities EXCEPT ![p] =
               IF saveFailed(LocalError) THEN Append(@, t.rec) ELSE @]
        /\ batch' = [batch EXCEPT ![p][j] =
               [t EXCEPT !.st = "done", !.error = LocalError,
                         !.result = Result(t.originalId, t.rec.entity, LocalError)]]
        /\ Issue(p, t.rec.key, Req("localError", t.verb, PathId(t.originalId)))
        /\ returned' = NoReturn
        /\ UNCHANGED <<journal, syncKey, rows, pc, syncEntities, i,
                       syncResults, drained, outcome, query>>

\* Faulty variant of repairPutFails: the error of the local PUT is not
\* thrown away but handled like the error of the remote call.
repairPutFailsSurfaces(p, j) ==
    LET t == batch[p][j]
    IN  /\ pc[p] = "batch"
        /\ j \in DOMAIN batch[p]
        /\ t.st = "repairPut"
        /\ failedSyncEntities' = [failedSyncEntities EXCEPT ![p] = Append(@, t.rec)]
        /\ batch' = [batch EXCEPT ![p][j] =
               [t EXCEPT !.st = "done",
                         !.result = Result(t.originalId, t.rec.entity, LocalError)]]
        /\ Issue(p, t.rec.key, Req("localError", PUT, PathId(t.originalId)))
        /\ returned' = NoReturn
        /\ UNCHANGED <<journal, syncKey, rows, pc, syncEntities, i,
                       syncResults, drained, outcome, query>>

\* Lines 372-375 / 488-492: the local PUT of the repair rejects and the
\* inner catch throws the error away.
repairPutFails(p, j) ==
    LET t == batch[p][j]
    IN  /\ pc[p] = "batch"
        /\ j \in DOMAIN batch[p]
        /\ t.st = "repairPut"
        /\ batch' = [batch EXCEPT ![p][j] =
               [t EXCEPT !.st = "done",
                         !.result = Result(t.originalId, t.rec.entity, t.error)]]
        /\ Issue(p, t.rec.key, Req("localError", PUT, PathId(t.originalId)))
        /\ returned' = NoReturn
        /\ UNCHANGED <<journal, syncKey, rows, pc, syncEntities, i,
                       failedSyncEntities, syncResults, drained, outcome, query>>

NextLocalFail ==
    \/ Next
    \/ \E j \in 1..batchSize : localWriteFails(1, j) /\ UNCHANGED adapterVars
    \/ \E j \in 1..batchSize : repairPutFails(1, j) /\ UNCHANGED adapterVars

SpecLocalFail == Init /\ [][NextLocalFail]_vars

\* The last entry of what push 1 logged for a record says a local request
\* failed.
LocalFailed(key) ==
    /\ requests[1][key] # <<>>
    /\ requests[1][key][Len(requests[1][key])].to = "localError"

\* The step taken is the failure of the repair of task j: its GET does not
\* answer with a document, or its local PUT rejects.
RepairFails(j) ==
    /\ pc[1] = "batch"
    /\ j \in DOMAIN batch[1]
    /\ batch[1][j].st \in {"repairGet", "repairPut"}
    /\ j \in DOMAIN batch'[1]
    /\ batch'[1][j].st # batch[1][j].st
    /\ \/ batch[1][j].st = "repairGet" /\ batch'[1][j].st # "repairPut"
       \/ batch[1][j].st = "repairPut" /\ LocalFailed(batch[1][j].rec.key)'

\* When push returns, a record answered with InsufficientCredentials has
\* that error in its result and is in the sync table or not as its answer
\* alone decides.
RepairOutcomeKept ==
    AtReturn =>
        /\ Len(syncResults[1]) = Len(syncEntities[1])
        /\ \A n \in Dispatched :
               Outcome(n) = InsufficientCredentialsError =>
                   /\ syncResults[1][n].error = InsufficientCredentialsError
                   /\ Reinstated(n) <=> ExpectedFailed(n)

\* C21: when the repair after InsufficientCredentials fails (its GET fails
\* or its local PUT fails) the task still ends with its result, the result
\* carries the InsufficientCredentials error, the failure adds nothing to the
\* failed sync entities or to the sync table, and the collection table is
\* left as it was.
C21_RepairFailureSwallowed ==
    [][/\ \A j \in 1..batchSize :
              RepairFails(j) =>
                  /\ batch'[1][j].st = "done"
                  /\ batch'[1][j].result =
                         Result(batch[1][j].originalId, batch[1][j].rec.entity,
                                InsufficientCredentialsError)
                  /\ failedSyncEntities' = failedSyncEntities
                  /\ journal' = journal
                  /\ rows' = rows
       /\ RepairOutcomeKept']_vars

\* Push returns after the repair of a save failed at its local PUT and the
\* repair of another record failed at its GET.
C21_Witness ==
    /\ AtReturn
    /\ \E n \in Dispatched :
           /\ Outcome(n) = InsufficientCredentialsError
           /\ Rec(n).method = POST
           /\ LocalFailed(Rec(n).key)
           /\ ~Reinstated(n)
    /\ \E n \in Dispatched :
           /\ Outcome(n) = InsufficientCredentialsError
           /\ Cardinality(RemoteRequests(Rec(n).key)) = 2
           /\ requests[1][Rec(n).key][Len(requests[1][Rec(n).key])].to = "remote"

\* C22: a record reinstated after an error is written back verbatim: the
\* sync table holds, when push returns, the very record that was drained,
\* with its key, entityId, collection, method and entity (its _id and local
\* marker included), also for a local-marked entity whose POST failed.
C22_ReinstatedVerbatim ==
    AtReturn =>
        \A n \in Dispatched :
            (Outcome(n) = NetworkError /\ Rec(n) \in drained[1]) =>
                Rec(n) \in journal

\* C24: an enqueue that throws SyncError leaves the sync table and the key
\* counter as they were, also when only some entity of the array lacks its
\* _id.
C24_FailedEnqueueChangesNothing ==
    [][(returned'.op = "enqueue" /\ returned'.error = SyncError) =>
          /\ journal' = journal
          /\ syncKey' = syncKey]_vars

\* The records of the sync table the query of push 1 matches.
MatchingNow == {r \in journal : r.entityId \in query[1]}

\* No enqueue wrote a matching record while push 1 ran.
NoEnqueueInterleaved ==
    \A r \in MatchingNow : \E d \in drained[1] : d.key = r.key

\* C25: when push returns and no enqueue was interleaved, the matching
\* records of the sync table are records that were dispatched and failed, a
\* record that failed with a network error is among them, and every drained
\* record with a lower key than another drained record of its entityId and
\* every record the remote accepted is gone.
C25_OnlyFailedRemain ==
    (AtReturn /\ NoEnqueueInterleaved) =>
        /\ \A r \in MatchingNow : \E n \in Dispatched :
               Rec(n).key = r.key /\ Outcome(n) \notin {"ok", "none"}
        /\ \A n \in Dispatched : Outcome(n) = NetworkError => Reinstated(n)
        /\ \A r \in drained[1] :
               (\E o \in drained[1] : o.entityId = r.entityId /\ o.key > r.key)
                   => ~InJournal(r.key)
        /\ \A n \in Dispatched : Outcome(n) = "ok" => ~Reinstated(n)

\* C26: a save record whose remote PUT or POST succeeded is not in the sync
\* table when push returns and its result carries no error, also when the
\* local write-back after it failed.
C26_AcceptedNotReinstated ==
    AtReturn =>
        \A n \in Dispatched :
            (Rec(n).method \in {POST, PUT} /\ Outcome(n) = "ok") =>
                /\ ~Reinstated(n)
                /\ syncResults[1][n].error = NoError

(* ------------- SpecReentrant: push called while push runs -------------- *)

\* Lines 280-298 hold no test of a push being in progress: a call made while
\* push 1 runs (push 2) starts with its own locals and drains whatever
\* matches.  The caller enqueues single entities and pushes without a query;
\* the remote accepts an operation or fails it with a network error.
NextReentrant ==
    \/ \E id \in EntityIds :
           createSaveOperation("books", <<Entity(id)>>) /\ UNCHANGED adapterVars
    \/ \E id \in EntityIds :
           createDeleteOperation("books", <<Entity(id)>>) /\ UNCHANGED adapterVars
    \/ NoPushRunning /\ pushStart(1, AllQuery) /\ UNCHANGED adapterVars
    \/ pc[1] # "idle" /\ pushStart(2, AllQuery) /\ UNCHANGED adapterVars
    \/ \E p \in Pushes, j \in 1..batchSize, s \in SrvIds :
           remoteOk(p, j, s) /\ UNCHANGED adapterVars
    \/ \E p \in Pushes, j \in 1..batchSize :
           remoteError(p, j, NetworkError) /\ UNCHANGED adapterVars
    \/ \E p \in Pushes, j \in 1..batchSize :
           localPut(p, j) /\ UNCHANGED adapterVars
    \/ \E p \in Pushes, j \in 1..batchSize :
           localDelete(p, j) /\ UNCHANGED adapterVars
    \/ \E p \in Pushes : batchDone(p) /\ UNCHANGED adapterVars
    \/ \E p \in Pushes : reinstate(p) /\ UNCHANGED adapterVars
    \/ \E p \in Pushes : pushReturn(p) /\ UNCHANGED adapterVars

SpecReentrant == Init /\ [][NextReentrant]_vars

\* The entityIds push p has a remote operation outstanding for.
Outstanding(p) ==
    {batch[p][j].rec.entityId :
        j \in {k \in DOMAIN batch[p] : batch[p][k].st = "remote"}}

\* C23: push excludes itself: while push 1 is between its drain and its
\* return, a second call of push has drained no record and issued no
\* request, and the two never have a remote operation outstanding for the
\* same entityId.
C23_PushExcludesItself ==
    /\ pc[1] # "idle" => (drained[2] = {} /\ requests[2] = NoRequests)
    /\ Outstanding(1) \cap Outstanding(2) = {}

====
